---- MODULE Spec2Model ----
(***************************************************************************)
(* reinfCalcEngine: reinforcement of reinforced-concrete elements          *)
(* (src/main.py, src/materialProperties/properties.py).                    *)
(*                                                                         *)
(* The engine computes with Python floats.  Here every real quantity is a  *)
(* fixed-point integer:                                                    *)
(*   length     1 unit = 0.1 mm              (Metre units per metre)       *)
(*   area       1 unit = 0.5e-8 m^2          (AreaPerSq units per          *)
(*              length-unit squared; the areas the code halves are         *)
(*              multiples of AreaPerSq, so that its halvings, exact in     *)
(*              binary floating point, are exact here too)                 *)
(*   ratio      1 unit = 1e-4                (One units per 1.0)           *)
(*   stress     1 unit = 1 kPa                                             *)
(*   force      1 unit = 1 N                 (Kilo units per kN)           *)
(*   moment     1 unit = 1 Nm                (Kilo units per kNm)          *)
(* Products and quotients are rounded down to the unit after each step     *)
(* (MulDiv), square and cube roots are rounded down (ISqrt, ICbrt).        *)
(***************************************************************************)
EXTENDS Integers, Sequences, FiniteSets, TLC

\* ------------------------------------------------------------------------
\* Fixed-point arithmetic
\* ------------------------------------------------------------------------
Metre == 10000
One == 10000
Kilo == 1000
AreaPerSq == 2

Big == 2^30

Abs(x) == IF x < 0 THEN -x ELSE x
Sign(x) == IF x < 0 THEN -1 ELSE 1
\* a mutant: the first argument whatever the second
Max2_first(a, b) == a

Max2(a, b) == IF a >= b THEN a ELSE b
Max3(a, b, c) == Max2(Max2(a, b), c)
Min2(a, b) == IF a <= b THEN a ELSE b

\* <<q, r>> with a * b = q * c + r, for 0 <= a < c, b >= 0, without
\* leaving the 32-bit integers
RECURSIVE MulDivQR(_, _, _)
MulDivQR(a, b, c) ==
    IF a = 0 \/ b = 0 THEN <<0, 0>>
    ELSE IF a <= Big \div b THEN <<(a * b) \div c, (a * b) % c>>
    ELSE LET h == MulDivQR(a, b \div 2, c)
             t == 2 * h[2] + (b % 2) * a
         IN  <<2 * h[1] + t \div c, t % c>>

\* a * b / c rounded towards zero, for c > 0
MulDiv(a, b, c) ==
    LET x == Abs(a)
        y == Abs(b)
        m == (x \div c) * y + MulDivQR(x % c, y, c)[1]
    IN  Sign(a) * Sign(b) * m

\* a * b / c rounded towards zero, for a divisor of either sign
MulDivSigned(a, b, c) == Sign(c) * MulDiv(a, b, Abs(c))

\* floor of the square root
RECURSIVE SqrtSearch(_, _, _)
SqrtSearch(x, lo, hi) ==
    IF lo >= hi THEN lo
    ELSE LET mid == (lo + hi + 1) \div 2
         IN  IF mid <= x \div mid THEN SqrtSearch(x, mid, hi)
             ELSE SqrtSearch(x, lo, mid - 1)

ISqrt(x) == IF x <= 0 THEN 0 ELSE SqrtSearch(x, 1, 46340)

\* floor of the cube root
RECURSIVE CbrtSearch(_, _, _)
CbrtSearch(x, lo, hi) ==
    IF lo >= hi THEN lo
    ELSE LET mid == (lo + hi + 1) \div 2
         IN  IF mid * mid <= x \div mid THEN CbrtSearch(x, mid, hi)
             ELSE CbrtSearch(x, lo, mid - 1)

ICbrt(x) == IF x <= 0 THEN 0 ELSE CbrtSearch(x, 1, 1290)

\* math.ceil(a / b) for b > 0
CeilDiv(a, b) == -((-a) \div b)

\* sqrt of a ratio, as a ratio
RSqrt(r) == ISqrt(r * One)

\* ------------------------------------------------------------------------
\* Program constants
\* ------------------------------------------------------------------------
None == -1

\* math.pi, as a ratio
PiR == 31416

\* kPa * (length unit)^2 per N: stress * area / StressDen is a force in N
StressDen == (Metre * Metre) \div Kilo

\* a count of squared length units as an area
Area(x) == AreaPerSq * x

\* ------------------------------------------------------------------------
\* materialProperties/properties.py
\* ------------------------------------------------------------------------
\* ExpClass: the recommended concrete class and the covers S1..S6 in mm
ExpClass ==
    [X0  |-> [concrete_class |-> "C12/15", S |-> <<10, 10, 10, 10, 15, 20>>],
     XC1 |-> [concrete_class |-> "C20/25", S |-> <<10, 10, 10, 15, 20, 25>>],
     XC2 |-> [concrete_class |-> "C25/30", S |-> <<10, 15, 20, 25, 30, 35>>],
     XC3 |-> [concrete_class |-> "C30/37", S |-> <<10, 15, 20, 25, 30, 35>>],
     XC4 |-> [concrete_class |-> "C30/37", S |-> <<15, 20, 25, 30, 35, 40>>],
     XD1 |-> [concrete_class |-> "C30/37", S |-> <<20, 25, 30, 35, 40, 45>>],
     XD2 |-> [concrete_class |-> "C30/37", S |-> <<25, 30, 35, 40, 45, 50>>],
     XD3 |-> [concrete_class |-> "C35/45", S |-> <<30, 35, 40, 45, 50, 55>>],
     XS1 |-> [concrete_class |-> "C30/37", S |-> <<20, 25, 30, 35, 40, 45>>],
     XS2 |-> [concrete_class |-> "C35/45", S |-> <<25, 30, 35, 40, 45, 50>>],
     XS3 |-> [concrete_class |-> "C35/45", S |-> <<30, 35, 40, 45, 50, 55>>],
     XF1 |-> [concrete_class |-> "C30/37", S |-> <<None, None, None, None, None, None>>],
     XF2 |-> [concrete_class |-> "C25/30", S |-> <<None, None, None, None, None, None>>],
     XF3 |-> [concrete_class |-> "C30/37", S |-> <<None, None, None, None, None, None>>],
     XF4 |-> [concrete_class |-> "C30/37", S |-> <<None, None, None, None, None, None>>],
     XA1 |-> [concrete_class |-> "C30/37", S |-> <<None, None, None, None, None, None>>],
     XA2 |-> [concrete_class |-> "C30/37", S |-> <<None, None, None, None, None, None>>],
     XA3 |-> [concrete_class |-> "C35/45", S |-> <<None, None, None, None, None, None>>]]

\* ConcreteClass: fck in MPa, fctm and fctk_0.05 in tenths of MPa,
\* area_coefficient in 1e-5
ConcreteClass ==
    [C12_15 |-> [fck |-> 12, fctm |-> 16, fctk_005 |-> 11, area_coefficient |-> 130],
     C16_20 |-> [fck |-> 16, fctm |-> 19, fctk_005 |-> 13, area_coefficient |-> 130],
     C20_25 |-> [fck |-> 20, fctm |-> 22, fctk_005 |-> 15, area_coefficient |-> 130],
     C25_30 |-> [fck |-> 25, fctm |-> 26, fctk_005 |-> 18, area_coefficient |-> 135],
     C30_37 |-> [fck |-> 30, fctm |-> 29, fctk_005 |-> 20, area_coefficient |-> 150],
     C35_45 |-> [fck |-> 35, fctm |-> 32, fctk_005 |-> 22, area_coefficient |-> 165],
     C40_50 |-> [fck |-> 40, fctm |-> 35, fctk_005 |-> 25, area_coefficient |-> 180],
     C45_55 |-> [fck |-> 45, fctm |-> 38, fctk_005 |-> 27, area_coefficient |-> 195],
     C50_60 |-> [fck |-> 50, fctm |-> 41, fctk_005 |-> 29, area_coefficient |-> 210]]

\* the unit of area_coefficient
CoeffDen == 10 * One

\* RebarGrade: fyd, fyk in MPa
RebarGrade ==
    [A_20G2VY |-> [fyd |-> 420, fyk |-> 490],
     RB500    |-> [fyd |-> 420, fyk |-> 500],
     RB500W   |-> [fyd |-> 420, fyk |-> 500]]

\* concrete_class.replace('/', '_')
ClassKey ==
    [c \in {"C12/15", "C16/20", "C20/25", "C25/30", "C30/37", "C35/45",
            "C40/50", "C45/55", "C50/60"} |->
        CASE c = "C12/15" -> "C12_15" [] c = "C16/20" -> "C16_20"
          [] c = "C20/25" -> "C20_25" [] c = "C25/30" -> "C25_30"
          [] c = "C30/37" -> "C30_37" [] c = "C35/45" -> "C35_45"
          [] c = "C40/50" -> "C40_50" [] c = "C45/55" -> "C45_55"
          [] c = "C50/60" -> "C50_60"]

\* int(concrete_class[1:3])
ClassNumber ==
    [c \in DOMAIN ClassKey |->
        CASE c = "C12/15" -> 12 [] c = "C16/20" -> 16 [] c = "C20/25" -> 20
          [] c = "C25/30" -> 25 [] c = "C30/37" -> 30 [] c = "C35/45" -> 35
          [] c = "C40/50" -> 40 [] c = "C45/55" -> 45 [] c = "C50/60" -> 50]

\* Element.get_material_properties
get_material_properties(p) ==
    LET element_steel_grade ==
            IF p.steel_grade = "20G2VY" THEN "A_20G2VY" ELSE p.steel_grade
    IN  <<ConcreteClass[ClassKey[p.concr_class]], RebarGrade[element_steel_grade]>>

\* ------------------------------------------------------------------------
\* Element.get_plate_reinforcement
\* ------------------------------------------------------------------------
axial_spacings ==
    <<3000, 2500, 2200, 2000, 1900, 1800, 1700, 1500, 1500,
      1400, 1300, 1250, 1200, 1100, 1000, 800, 500>>

\* pi * (bar_diam / 2) ** 2
bar_area(bar_diam) == Area(MulDiv((bar_diam \div 2) * (bar_diam \div 2), PiR, One))

\* (1 / provided_spacing) * bar_area: an area per metre of width
spacing_area(provided_spacing, bar_diam) ==
    MulDiv(bar_area(bar_diam), Metre, provided_spacing)

\* a mutant: the upper bound is not tested
area_accepted_no_max(provided_area, required_area, min_area, max_area) ==
    provided_area >= required_area /\ min_area <= provided_area

\* the acceptance test of both searches
area_accepted(provided_area, required_area, min_area, max_area) ==
    provided_area >= required_area /\ min_area <= provided_area /\ provided_area <= max_area

\* a mutant: the clear distance of the bars is not tested
RECURSIVE plate_scan_no_clearance(_, _, _, _, _, _)
plate_scan_no_clearance(i, required_area, min_area, max_area, bar_diam, cover) ==
    IF i > Len(axial_spacings) THEN <<None, None>>
    ELSE LET provided_spacing == axial_spacings[i]
             provided_area == spacing_area(provided_spacing, bar_diam)
         IN  IF area_accepted(provided_area, required_area, min_area, max_area)
             THEN <<provided_area, provided_spacing>>
             ELSE plate_scan_no_clearance(i + 1, required_area, min_area, max_area,
                                          bar_diam, cover)

\* the loop over axial_spacings, from index i on
RECURSIVE plate_scan(_, _, _, _, _, _)
plate_scan(i, required_area, min_area, max_area, bar_diam, cover) ==
    IF i > Len(axial_spacings) THEN <<None, None>>
    ELSE LET provided_spacing == axial_spacings[i]
             provided_area == spacing_area(provided_spacing, bar_diam)
         IN  IF /\ provided_spacing > bar_diam + cover
                /\ area_accepted(provided_area, required_area, min_area, max_area)
             THEN <<provided_area, provided_spacing>>
             ELSE plate_scan(i + 1, required_area, min_area, max_area, bar_diam, cover)

get_plate_reinforcement(required_area, min_area, max_area, bar_diam, cover) ==
    plate_scan(1, required_area, min_area, max_area, bar_diam, cover)

\* ------------------------------------------------------------------------
\* Element.get_beam_reinforcement
\* ------------------------------------------------------------------------
min_bars == 2

\* provided_bars * pi * (bar_diam / 2) ** 2
bars_area(provided_bars, bar_diam) ==
    Area(MulDiv(provided_bars * (bar_diam \div 2) * (bar_diam \div 2), PiR, One))

\* a mutant: the covers of the two faces only
width_left_two_covers(bar_diam, stirrup_diam, width, cover) ==
    width - 2 * cover - 2 * stirrup_diam - min_bars * bar_diam

width_left(bar_diam, stirrup_diam, width, cover) ==
    width - 4 * cover - 2 * stirrup_diam - min_bars * bar_diam

\* a mutant: the quotient rounded down
add_bars_floor(bar_diam, stirrup_diam, width, cover) ==
    width_left(bar_diam, stirrup_diam, width, cover) \div (cover + bar_diam)

add_bars(bar_diam, stirrup_diam, width, cover) ==
    CeilDiv(width_left(bar_diam, stirrup_diam, width, cover), cover + bar_diam)

one_more_bar(bar_diam, stirrup_diam, width, cover) ==
    width_left(bar_diam, stirrup_diam, width, cover)
        - add_bars(bar_diam, stirrup_diam, width, cover) * (cover + bar_diam) >= bar_diam

max_bars(bar_diam, stirrup_diam, width, cover) ==
    IF one_more_bar(bar_diam, stirrup_diam, width, cover)
    THEN min_bars + add_bars(bar_diam, stirrup_diam, width, cover)
    ELSE min_bars + add_bars(bar_diam, stirrup_diam, width, cover) - 1

\* the loop over range(min_bars, max_bars + 1), from provided_bars on
RECURSIVE beam_scan(_, _, _, _, _, _)
beam_scan(provided_bars, last, required_area, min_area, max_area, bar_diam) ==
    IF provided_bars > last THEN <<None, None>>
    ELSE LET provided_area == bars_area(provided_bars, bar_diam)
         IN  IF area_accepted(provided_area, required_area, min_area, max_area)
             THEN <<provided_area, provided_bars>>
             ELSE beam_scan(provided_bars + 1, last, required_area, min_area, max_area, bar_diam)

\* a mutant: the scan starts one bar too high
get_beam_reinforcement_from_3(required_area, min_area, max_area, bar_diam, stirrup_diam, width, cover) ==
    beam_scan(min_bars + 1, max_bars(bar_diam, stirrup_diam, width, cover),
              required_area, min_area, max_area, bar_diam)

get_beam_reinforcement(required_area, min_area, max_area, bar_diam, stirrup_diam, width, cover) ==
    beam_scan(min_bars, max_bars(bar_diam, stirrup_diam, width, cover),
              required_area, min_area, max_area, bar_diam)

\* the record of one call of a search, kept in calls
BeamCall(required_area, min_area, max_area, bar_diam, stirrup_diam, width, cover) ==
    [fn |-> "get_beam_reinforcement", required_area |-> required_area,
     min_area |-> min_area, max_area |-> max_area, bar_diam |-> bar_diam,
     stirrup_diam |-> stirrup_diam, width |-> width, cover |-> cover,
     ret |-> get_beam_reinforcement(required_area, min_area, max_area, bar_diam,
                                    stirrup_diam, width, cover)]

PlateCall(required_area, min_area, max_area, bar_diam, cover) ==
    [fn |-> "get_plate_reinforcement", required_area |-> required_area,
     min_area |-> min_area, max_area |-> max_area, bar_diam |-> bar_diam,
     stirrup_diam |-> 0, width |-> 0, cover |-> cover,
     ret |-> get_plate_reinforcement(required_area, min_area, max_area, bar_diam, cover)]


\* ------------------------------------------------------------------------
\* Element.get_nominal_cover
\* ------------------------------------------------------------------------
\* the structure class after the reductions for strength and for plates
structure_class(element_code, p) ==
    LET strength ==
            IF p.exp \in {"X0", "XC1", "XC2", "XC3", "XD3", "XS2", "XS3"}
            THEN (IF ClassNumber[p.concr_class] >= 30 THEN 1 ELSE 0)
            ELSE IF p.exp \in {"XC4", "XD1", "XD2", "XS1"}
            THEN (IF ClassNumber[p.concr_class] >= 40 THEN 1 ELSE 0)
            ELSE 0
        plate == IF element_code = "p" THEN 1 ELSE 0
    IN  4 - strength - plate

c_dev == 10

\* <<recommended cover in length units or None, remarks>>
get_nominal_cover(element_code, p) ==
    LET exposure_class_properties == ExpClass[p.exp]
        recommended_concrete_class == exposure_class_properties.concrete_class
        remarks0 ==
            IF ClassNumber[p.concr_class] < ClassNumber[recommended_concrete_class]
            THEN <<"For exposure class " \o p.exp
                   \o " the minimum recommended concrete class is "
                   \o recommended_concrete_class>>
            ELSE <<>>
        c_min_dur == exposure_class_properties.S[structure_class(element_code, p)]
        c_min_b == p.bar_diam
        c_min == IF element_code = "f" THEN 40 ELSE Max3(c_min_dur, c_min_b, 10)
        recommended_c_nom == c_min + c_dev
        c_nom == p.concr_cover
    IN  IF c_min_dur = None
        THEN <<None, Append(remarks0, "Not able to calculate nominal cover for exposure class "
                                      \o p.exp \o ".")>>
        ELSE <<MulDiv(recommended_c_nom, Metre, Kilo),
               Append(remarks0,
                      IF c_nom # recommended_c_nom
                      THEN "Recommended nominal concrete cover value is "
                           \o ToString(recommended_c_nom) \o " mm."
                      ELSE "Nominal concrete cover correct.")>>

\* ------------------------------------------------------------------------
\* What calc_reinforcement hands back
\* ------------------------------------------------------------------------
\* the returned dictionary: results, the locals the claims read
\* (parameters), and the searches the call made
Returned(provided_area, provided_reinforcement, required_area, remarks, parameters, made) ==
    [raised |-> "", provided_area |-> provided_area,
     provided_reinforcement |-> provided_reinforcement,
     required_area |-> required_area, remarks |-> remarks,
     parameters |-> parameters, calls |-> made]

\* the call left by an exception: nothing is returned
Raised(exception, remarks, parameters, made) ==
    [raised |-> exception, provided_area |-> <<>>, provided_reinforcement |-> <<>>,
     required_area |-> <<>>, remarks |-> remarks,
     parameters |-> parameters, calls |-> made]

\* remarks.append(*nom_cover_remarks): list.append takes exactly one argument
append_star(remarks, nom_cover_remarks) ==
    IF Len(nom_cover_remarks) = 1
    THEN [raised |-> "", remarks |-> Append(remarks, nom_cover_remarks[1])]
    ELSE [raised |-> "TypeError", remarks |-> remarks]

\* a mutant: a limit that lets over-capacity sections through
mu_lim_high == 3740 + 760

mu_lim == 3740
stirrup_diam == 80

\* width * eff_height ** 2 * f_cd, a moment in Nm
section_moment(width, eff_height, f_cd) ==
    MulDiv(MulDiv(width * eff_height, eff_height, Metre), f_cd, StressDen)

\* the minimum area of plates and beams
flexural_min_area(f_ctm, f_yk, width, eff_height) ==
    Area(Max2(MulDiv(MulDiv(width * eff_height, 2600, One), f_ctm, f_yk),
              MulDiv(width * eff_height, 13, One)))

\* 0.04 * width * height
flexural_max_area(width, height) == Area(MulDiv(width * height, 400, One))

\* alpha_1 * width * eff_height * (f_cd / f_yd)
alpha_area(alpha_1, width, eff_height, f_cd, f_yd) ==
    Area(MulDiv(MulDiv(width * eff_height, alpha_1, One), f_cd, f_yd))

\* ------------------------------------------------------------------------
\* Plate.calc_reinforcement
\* ------------------------------------------------------------------------
Plate_calc_reinforcement(valid, p) ==
    IF ~valid
    THEN Returned(<<None>>, <<None>>, <<None>>,
                  <<"The file is not valid.", "Calculations finished.">>, <<>>, <<>>)
    ELSE
    LET props == get_material_properties(p)
        f_ck == props[1].fck * Kilo
        f_cd == MulDiv(f_ck, 10, 14)
        f_ctm == props[1].fctm * (Kilo \div 10)
        f_yd == props[2].fyd * Kilo
        f_yk == props[2].fyk * Kilo
        bar_diam == MulDiv(p.bar_diam, Metre, Kilo)
        height == MulDiv(p.height, Metre, 100)
        width == Metre
        nom_cover == MulDiv(p.concr_cover, Metre, 100)
        cover == get_nominal_cover("p", p)
        rem1 == append_star(<<"The file is valid, starting calculations...">>, cover[2])
        bend_moment == p.moment * Kilo
        eff_height == height - (nom_cover + bar_diam \div 2)
        min_area == flexural_min_area(f_ctm, f_yk, width, eff_height)
        max_area == flexural_max_area(width, height)
        mu == MulDiv(bend_moment, One, section_moment(width, eff_height, f_cd))
        mu_correct == ~(mu > mu_lim)
        alpha_1 == 9730 - RSqrt(9740 - MulDiv(19500, mu, One))
        required_area == Max2(alpha_area(alpha_1, width, eff_height, f_cd, f_yd), min_area)
        search == PlateCall(required_area, min_area, max_area, bar_diam, nom_cover)
        parameters == [mu |-> mu, mu_correct |-> mu_correct, min_area |-> min_area,
                       max_area |-> max_area, eff_height |-> eff_height]
    IN  IF rem1.raised # "" THEN Raised(rem1.raised, rem1.remarks, <<>>, <<>>)
        ELSE IF ~mu_correct
        THEN Returned(<<None>>, <<None>>, <<None>>,
                      rem1.remarks \o <<"Mu value too high!", "Calculations finished.">>,
                      parameters, <<>>)
        ELSE Returned(<<search.ret[1]>>, <<search.ret[2]>>, <<required_area>>,
                      rem1.remarks \o <<"Mu value correct.", "Calculations finished.">>,
                      parameters, <<search>>)

\* ------------------------------------------------------------------------
\* Beam.calc_reinforcement
\* ------------------------------------------------------------------------
eta == One

\* eta - sqrt(eta ** 2 - 2 * eta * mu)
eta_root(mu) == eta - RSqrt(MulDiv(eta, eta, One) - MulDiv(2 * eta, mu, One))

\* the required area of the section, with the remarks and flags of its
\* branch; required_area stays None where the code leaves it unassigned
Beam_section(p, width, eff_height, bend_moment, f_cd, f_yd, min_area) ==
    IF p.sup_section
    THEN
        LET mu == MulDiv(bend_moment, One, section_moment(width, eff_height, f_cd))
            alpha_1 == 9730 - RSqrt(9740 - MulDiv(19500, mu, One))
        IN  IF mu > mu_lim
            THEN [mu |-> mu, section |-> "support", mu_2 |-> None,
                  required_area_1 |-> None, required_area_2 |-> None,
                  mu_correct |-> FALSE, mu2_correct |-> TRUE,
                  required_area |-> None, remarks |-> <<"Mu value too high!">>]
            ELSE [mu |-> mu, section |-> "support", mu_2 |-> None,
                  required_area_1 |-> None, required_area_2 |-> None,
                  mu_correct |-> TRUE, mu2_correct |-> TRUE,
                  required_area |->
                      Max2(alpha_area(alpha_1, width, eff_height, f_cd, f_yd), min_area),
                  remarks |-> <<"Mu value correct.">>]
    ELSE
        LET fl_height == MulDiv(p.fl_height, Metre, 100)
            fl_width == MulDiv(p.fl_width, Metre, 100)
            mu == MulDiv(bend_moment, One, section_moment(fl_width, eff_height, f_cd))
            lbda_x == MulDiv(MulDiv(eta_root(mu), One, eta), eff_height, One)
            alpha_1 == eta_root(mu)
            arm == eff_height - fl_height \div 2
            bend_moment_1 ==
                MulDiv(MulDiv(MulDiv(fl_height * (fl_width - width), arm, Metre),
                              eta, One), f_cd, StressDen)
            bend_moment_2 == bend_moment - bend_moment_1
            mu_2 == MulDiv(bend_moment_2, One, section_moment(width, eff_height, f_cd))
            required_area_1 ==
                Area(MulDiv(MulDiv(bend_moment_1, Metre, arm), StressDen, f_yd))
            required_area_2 == alpha_area(eta_root(mu), width, eff_height, f_cd, f_yd)
        IN  IF mu > mu_lim
            THEN [mu |-> mu, section |-> "span", mu_2 |-> None,
                  required_area_1 |-> None, required_area_2 |-> None,
                  mu_correct |-> FALSE, mu2_correct |-> TRUE,
                  required_area |-> None, remarks |-> <<"Mu value too high!">>]
            ELSE IF lbda_x < fl_height
            THEN [mu |-> mu, section |-> "apparent", mu_2 |-> None,
                  required_area_1 |-> None, required_area_2 |-> None,
                  mu_correct |-> TRUE, mu2_correct |-> TRUE,
                  required_area |->
                      Max2(alpha_area(alpha_1, fl_width, eff_height, f_cd, f_yd), min_area),
                  remarks |-> <<"Mu value correct.", "Section is an apparent T section.">>]
            ELSE IF mu_2 > mu_lim
            THEN [mu |-> mu, section |-> "real", mu_2 |-> mu_2,
                  required_area_1 |-> None, required_area_2 |-> None,
                  mu_correct |-> TRUE, mu2_correct |-> FALSE,
                  required_area |-> None,
                  remarks |-> <<"Mu value correct.", "Section is a real T section.",
                                "Mu value after recalculation too high!">>]
            ELSE [mu |-> mu, section |-> "real", mu_2 |-> mu_2,
                  required_area_1 |-> required_area_1, required_area_2 |-> required_area_2,
                  mu_correct |-> TRUE, mu2_correct |-> TRUE,
                  required_area |-> Max2(required_area_1 + required_area_2, min_area),
                  remarks |-> <<"Mu value correct.", "Section is a real T section.">>]

\* a mutant: the minimum area handed over as the required area
Beam_search_min(required_area, min_area, max_area, bar_diam, width, nom_cover) ==
    BeamCall(min_area, min_area, max_area, bar_diam, stirrup_diam, width, nom_cover)

\* the search the beam makes once mu_correct and mu2_correct hold
Beam_search(required_area, min_area, max_area, bar_diam, width, nom_cover) ==
    BeamCall(required_area, min_area, max_area, bar_diam, stirrup_diam, width, nom_cover)

Beam_parameters(sec, min_area, max_area, eff_height, width, f_cd, f_yd) ==
    [mu |-> sec.mu, mu_correct |-> sec.mu_correct, mu2_correct |-> sec.mu2_correct,
     min_area |-> min_area, max_area |-> max_area, eff_height |-> eff_height,
     width |-> width, f_cd |-> f_cd, f_yd |-> f_yd, section |-> sec.section,
     mu_2 |-> sec.mu_2, required_area_1 |-> sec.required_area_1,
     required_area_2 |-> sec.required_area_2]

\* the bar selection of a section within the limit, and the returned dictionary
Beam_results(remarks, sec, parameters, min_area, max_area, bar_diam, width, nom_cover) ==
    IF sec.mu_correct /\ sec.mu2_correct
    THEN LET search == Beam_search(sec.required_area, min_area, max_area, bar_diam,
                                   width, nom_cover)
         IN  Returned(<<search.ret[1]>>, <<search.ret[2]>>, <<sec.required_area>>,
                      remarks \o sec.remarks \o <<"Calculations finished.">>,
                      parameters, <<search>>)
    ELSE Returned(<<None>>, <<None>>, <<sec.required_area>>,
                  remarks \o sec.remarks \o <<"Calculations finished.">>,
                  parameters, <<>>)

Beam_calc_reinforcement(valid, p) ==
    IF ~valid
    THEN Returned(<<None>>, <<None>>, <<None>>,
                  <<"The file is not valid.", "Calculations finished.">>, <<>>, <<>>)
    ELSE
    LET props == get_material_properties(p)
        f_ck == props[1].fck * Kilo
        f_cd == MulDiv(f_ck, 10, 14)
        f_ctm == props[1].fctm * (Kilo \div 10)
        f_yd == props[2].fyd * Kilo
        f_yk == props[2].fyk * Kilo
        bar_diam == MulDiv(p.bar_diam, Metre, Kilo)
        height == MulDiv(p.height, Metre, 100)
        width == MulDiv(p.width, Metre, 100)
        nom_cover == MulDiv(p.concr_cover, Metre, 100)
        cover == get_nominal_cover("b", p)
        rem1 == append_star(<<"The file is valid, starting calculations...">>, cover[2])
        bend_moment == p.moment * Kilo
        eff_height == height - (nom_cover + stirrup_diam + bar_diam \div 2)
        min_area == flexural_min_area(f_ctm, f_yk, width, eff_height)
        max_area == flexural_max_area(width, height)
        sec == Beam_section(p, width, eff_height, bend_moment, f_cd, f_yd, min_area)
    IN  IF rem1.raised # "" THEN Raised(rem1.raised, rem1.remarks, <<>>, <<>>)
        ELSE Beam_results(rem1.remarks, sec,
                          Beam_parameters(sec, min_area, max_area, eff_height, width,
                                          f_cd, f_yd),
                          min_area, max_area, bar_diam, width, nom_cover)

\* ------------------------------------------------------------------------
\* Column.calc_reinforcement
\* ------------------------------------------------------------------------
\* a mutant: of two faces below half the minimum only the first is raised
column_adjust_first_only(required_area_1, required_area_2, min_area) ==
    IF required_area_1 + required_area_2 < min_area
    THEN IF required_area_1 < min_area \div 2 /\ required_area_2 < min_area \div 2
         THEN <<min_area \div 2, required_area_2>>
         ELSE IF required_area_1 >= min_area \div 2
         THEN <<required_area_1, min_area - required_area_1>>
         ELSE <<min_area - required_area_2, required_area_2>>
    ELSE <<required_area_1, required_area_2>>

\* a mutant: whenever the sum is short both faces get half the minimum
column_adjust_halves(required_area_1, required_area_2, min_area) ==
    IF required_area_1 + required_area_2 < min_area
    THEN <<min_area \div 2, min_area \div 2>>
    ELSE <<required_area_1, required_area_2>>

\* the minimum-area adjustment of the two faces: <<required_area_1, required_area_2>>
column_adjust(required_area_1, required_area_2, min_area) ==
    IF required_area_1 + required_area_2 < min_area
    THEN IF required_area_1 < min_area \div 2 /\ required_area_2 < min_area \div 2
         THEN <<min_area \div 2, min_area \div 2>>
         ELSE IF required_area_1 >= min_area \div 2
         THEN <<required_area_1, min_area - required_area_1>>
         ELSE IF required_area_2 >= min_area \div 2
         THEN <<min_area - required_area_2, required_area_2>>
         ELSE <<required_area_1, required_area_2>>
    ELSE <<required_area_1, required_area_2>>

\* max((0.1 * vert_force) / f_yd, 0.002 * width * height)
column_min_area(vert_force, f_yd, width, height) ==
    Area(Max2(MulDiv(MulDiv(1000, vert_force, One), StressDen, f_yd),
              MulDiv(width * height, 20, One)))

\* alpha * (s / f_yd)
column_area(alpha, s, f_yd) == Area(MulDiv(MulDiv(alpha, s, One), StressDen, f_yd))

\* a mutant: the direct branch only above 0.371 / (1 - delta) + alpha_2_min
column_alphas_threshold(m_ed_1, n_ed, delta, alpha_1_min, alpha_2_min) ==
    LET alpha_2 == MulDiv(m_ed_1 - 3710, One, One - delta)
        root_expr == 9470 - MulDiv(19500, m_ed_1, One)
    IN  IF m_ed_1 > MulDiv(3710, One, One - delta) + alpha_2_min
        THEN [alpha_1 |-> Max2(5000 - n_ed + alpha_2, alpha_1_min), alpha_2 |-> alpha_2,
              alpha_2_ge |-> TRUE, root_expr |-> None, root_taken |-> FALSE]
        ELSE [alpha_1 |-> IF root_expr >= 0
                          THEN Max2(9730 - n_ed - RSqrt(root_expr), alpha_1_min)
                          ELSE alpha_1_min,
              alpha_2 |-> alpha_2_min, alpha_2_ge |-> FALSE, root_expr |-> root_expr,
              root_taken |-> root_expr >= 0]

\* alpha_1 and alpha_2 from the shifted moment: [alpha_1, alpha_2, alpha_2_ge, root_expr]
column_alphas(m_ed_1, n_ed, delta, alpha_1_min, alpha_2_min) ==
    LET alpha_2 == MulDiv(m_ed_1 - 3710, One, One - delta)
        root_expr == 9470 - MulDiv(19500, m_ed_1, One)
    IN  IF alpha_2 >= alpha_2_min
        THEN [alpha_1 |-> Max2(5000 - n_ed + alpha_2, alpha_1_min), alpha_2 |-> alpha_2,
              alpha_2_ge |-> TRUE, root_expr |-> None, root_taken |-> FALSE]
        ELSE [alpha_1 |-> IF root_expr >= 0
                          THEN Max2(9730 - n_ed - RSqrt(root_expr), alpha_1_min)
                          ELSE alpha_1_min,
              alpha_2 |-> alpha_2_min, alpha_2_ge |-> FALSE, root_expr |-> root_expr,
              root_taken |-> root_expr >= 0]

\* a mutant: the applied moment is used as it is
column_bend_moment_applied(applied_moment, vert_force, height) ==
    [moment_floor |-> MulDiv(vert_force, Max2(height \div 30, 200), Metre),
     moment_modified |-> FALSE, bend_moment |-> applied_moment]

\* the minimum eccentricity: the moment of the later formulas
column_bend_moment(applied_moment, vert_force, height) ==
    LET eccentricity == Max2(height \div 30, 200)
        moment_floor == MulDiv(vert_force, eccentricity, Metre)
        moment_modified == applied_moment < moment_floor
    IN  [moment_floor |-> moment_floor, moment_modified |-> moment_modified,
         bend_moment |-> IF moment_modified THEN moment_floor ELSE applied_moment]

Column_calc_reinforcement(valid, p) ==
    IF ~valid
    THEN Returned(<<None, None>>, <<None, None>>, <<None, None>>,
                  <<"The file is not valid.", "Calculations finished.">>, <<>>, <<>>)
    ELSE
    LET props == get_material_properties(p)
        f_ck == props[1].fck * Kilo
        f_cd == MulDiv(f_ck, 10, 14)
        f_yd == props[2].fyd * Kilo
        bar_diam == MulDiv(p.bar_diam, Metre, Kilo)
        height == MulDiv(p.height, Metre, 100)
        width == MulDiv(p.width, Metre, 100)
        nom_cover == MulDiv(p.concr_cover, Metre, 100)
        cover == get_nominal_cover("c", p)
        rem1 == append_star(<<"The file is valid, starting calculations...">>, cover[2])
        applied_moment == p.moment * Kilo
        vert_force == p.vertical * Kilo
        ecc == column_bend_moment(applied_moment, vert_force, height)
        moment_floor == ecc.moment_floor
        moment_modified == ecc.moment_modified
        bend_moment == ecc.bend_moment
        a == nom_cover + bar_diam \div 2 + stirrup_diam
        eff_height == height - a
        delta == MulDiv(a, One, eff_height)
        s == MulDiv(width * eff_height, f_cd, StressDen)
        n_ed == MulDiv(vert_force, One, s)
        m_ed == MulDiv(MulDiv(bend_moment, Metre, eff_height), One, s)
        m_ed_1 == m_ed + MulDiv(MulDiv(5000, n_ed, One), One - delta, One)
        alpha_1_2_min == Max2(MulDiv(MulDiv(One + delta, f_yd, f_cd), 20, One),
                              MulDiv(1000, n_ed, One))
        alpha_1_min == alpha_1_2_min \div 2
        alpha_2_min == alpha_1_min
        al == column_alphas(m_ed_1, n_ed, delta, alpha_1_min, alpha_2_min)
        min_area == column_min_area(vert_force, f_yd, width, height)
        max_area == flexural_max_area(width, height)
        computed_1 == column_area(al.alpha_1, s, f_yd)
        computed_2 == column_area(al.alpha_2, s, f_yd)
        adj == column_adjust(computed_1, computed_2, min_area)
        search_1 == BeamCall(adj[1], min_area \div 2, max_area \div 2, bar_diam,
                             stirrup_diam, width, nom_cover)
        search_2 == BeamCall(adj[2], min_area \div 2, max_area \div 2, bar_diam,
                             stirrup_diam, width, nom_cover)
        parameters == [min_area |-> min_area, max_area |-> max_area,
                       eff_height |-> eff_height, bend_moment |-> bend_moment,
                       applied_moment |-> applied_moment, moment_floor |-> moment_floor,
                       moment_modified |-> moment_modified, m_ed_1 |-> m_ed_1,
                       delta |-> delta, n_ed |-> n_ed, alpha_1_min |-> alpha_1_min,
                       alpha_1 |-> al.alpha_1, alpha_2 |-> al.alpha_2,
                       alpha_2_ge |-> al.alpha_2_ge, root_expr |-> al.root_expr,
                       root_taken |-> al.root_taken,
                       computed_1 |-> computed_1, computed_2 |-> computed_2]
    IN  IF rem1.raised # "" THEN Raised(rem1.raised, rem1.remarks, <<>>, <<>>)
        ELSE Returned(<<search_1.ret[1], search_2.ret[1]>>,
                      <<search_1.ret[2], search_2.ret[2]>>, <<adj[1], adj[2]>>,
                      rem1.remarks
                        \o <<IF moment_modified THEN "Modifying bending moment value."
                             ELSE "No need to modify bending moment value.",
                             "Alpha values calculated.", "Calculations finished.">>,
                      parameters, <<search_1, search_2>>)

\* ------------------------------------------------------------------------
\* Foot.get_a_coefficient
\* ------------------------------------------------------------------------
\* c3 * x^3 + c2 * x^2 + c1 * x + c0 as a ratio, for the ratio x; c3 and c2
\* in 1e-10, c1 in 1e-8, c0 in 1e-4
poly3(c3, c2, c1, c0, x) ==
    MulDiv(MulDiv(MulDiv(c3, x, One) + c2, x, 100 * One) + c1, x, One * One) + c0

\* None where no branch of the code returns
get_a_coefficient(dependent_val) ==
    IF dependent_val <= 5 * One THEN 2000
    ELSE IF dependent_val <= 35 * One
    THEN poly3(0, -3460400, 4050800, 61, dependent_val)
    ELSE IF dependent_val <= 50 * One
    THEN poly3(69861, -10796000, 6618200, -2934, dependent_val)
    ELSE IF dependent_val <= 100 * One
    THEN poly3(254, -354810, 1397700, 5767, dependent_val)
    ELSE IF dependent_val <= 150 * One
    THEN poly3(996, -577210, 1620100, 5025, dependent_val)
    ELSE IF dependent_val <= 300 * One
    THEN poly3(237, -235760, 1107900, 7586, dependent_val)
    ELSE IF dependent_val <= 500 * One
    THEN poly3(0, -22634, 468570, 13980, dependent_val)
    ELSE None

\* round(x, 2) of a ratio
round2(x) == ((x + 50) \div 100) * 100

\* ------------------------------------------------------------------------
\* Foot.calc_reinforcement
\* ------------------------------------------------------------------------
\* the punching verification: the exception raised, if any, and the remarks
Foot_punching(vert_force, sigma, u0, eff_height, nu_rd_max, c_width, c_height, provided_area, length, f_ck) ==
    LET nu_ed == MulDivSigned(vert_force, StressDen, u0 * eff_height)
        column_force == MulDiv(sigma, c_width * c_height, StressDen * Kilo)
        a_dependant == MulDiv(vert_force, One, column_force)
        a_raw == get_a_coefficient(a_dependant)
        a_coeff == round2(a_raw)
        a == MulDiv(a_coeff, c_width, One)
        rho_l_100_f_ck == MulDiv(provided_area \div AreaPerSq, 100 * f_ck, length * eff_height)
        k == Min2(One + RSqrt(MulDiv(200 * One, Metre, eff_height * Kilo)), 2 * One)
        nu_min == MulDiv(MulDiv(350, MulDiv(k, RSqrt(k), One), One), ISqrt(f_ck * Kilo), One)
        nu_rd == MulDiv(2 * Max2(MulDiv(MulDiv(1280, k, One), ICbrt(rho_l_100_f_ck * Kilo), 10 * One),
                                 nu_min), eff_height, a)
        u == 2 * c_width + 2 * c_height + MulDiv(2 * PiR, a, One)
        vert_force_red ==
            vert_force - MulDiv(sigma, c_width * c_height + 2 * a * (c_width + c_height)
                                           + MulDiv(PiR, a * a, One), StressDen * Kilo)
        nu_ed_red == MulDiv(vert_force_red, StressDen, u * eff_height)
    IN  IF nu_ed > nu_rd_max
        THEN [raised |-> "", a_dependant |-> None,
              remarks |-> <<"Punching verification.",
                            "EC requirement not fulfilled, nu_ed value too high.">>]
        ELSE IF column_force = 0
        THEN [raised |-> "ZeroDivisionError", a_dependant |-> None,
              remarks |-> <<"Punching verification.",
                            "EC requirement fulfilled, nu_ed value correct.">>]
        ELSE IF a_raw = None
        THEN [raised |-> "TypeError", a_dependant |-> a_dependant,
              remarks |-> <<"Punching verification.",
                            "EC requirement fulfilled, nu_ed value correct.">>]
        ELSE IF eff_height < 0
        \* sqrt(200 / (eff_height * 1000)) of a negative number
        THEN [raised |-> "ValueError", a_dependant |-> a_dependant,
              remarks |-> <<"Punching verification.",
                            "EC requirement fulfilled, nu_ed value correct.">>]
        ELSE [raised |-> "", a_dependant |-> a_dependant,
              remarks |-> <<"Punching verification.",
                            "EC requirement fulfilled, nu_ed value correct.",
                            IF nu_ed_red > nu_rd
                            THEN "EC requirement not fulfilled, nu_ed_red value too high."
                            ELSE "EC requirement fulfilled, nu_ed_red value correct.">>]

\* a mutant: the minimum anchorage rounded up to the centimetre is assumed
foot_anchorage_min(col_bar_diam, f_yd, f_bd) ==
    LET required_anchorage == MulDiv(col_bar_diam, f_yd, 4 * f_bd)
        min_anchorage == Max3(MulDiv(6000, required_anchorage, One), 10 * col_bar_diam,
                              Metre \div 10)
    IN  [required_anchorage |-> required_anchorage, min_anchorage |-> min_anchorage,
         assumed_anchorage |-> CeilDiv(min_anchorage, 100) * 100]

\* the anchorage lengths of the column bars; ceil(required * 100) / 100 is
\* the required length rounded up to the centimetre
foot_anchorage(col_bar_diam, f_yd, f_bd) ==
    LET required_anchorage == MulDiv(col_bar_diam, f_yd, 4 * f_bd)
        min_anchorage == Max3(MulDiv(6000, required_anchorage, One), 10 * col_bar_diam,
                              Metre \div 10)
    IN  [required_anchorage |-> required_anchorage, min_anchorage |-> min_anchorage,
         assumed_anchorage |->
            Max2(min_anchorage, CeilDiv(col_bar_diam * f_yd, 4 * f_bd * 100) * 100)]

Foot_calc_reinforcement(valid, p) ==
    IF ~valid
    \* total_required_area is read at the end and was never assigned
    THEN Raised("UnboundLocalError", <<"The file is not valid.", "Calculations finished.">>,
                <<>>, <<>>)
    ELSE
    LET props == get_material_properties(p)
        f_ck == props[1].fck * Kilo
        f_cd == MulDiv(f_ck, 10, 14)
        f_ctk == props[1].fctk_005 * (Kilo \div 10)
        f_ctd == MulDiv(f_ctk, 10, 14)
        f_yd == props[2].fyd * Kilo
        bar_diam == MulDiv(p.bar_diam, Metre, Kilo)
        col_bar_diam == MulDiv(p.col_bar_diam, Metre, Kilo)
        height == MulDiv(p.fheight, Metre, 100)
        width == MulDiv(p.fwidth, Metre, 100)
        length == MulDiv(p.flength, Metre, 100)
        nom_cover == MulDiv(p.concr_cover, Metre, 100)
        c_height == MulDiv(p.cheight, Metre, 100)
        c_width == MulDiv(p.cwidth, Metre, 100)
        cover == get_nominal_cover("f", p)
        rem1 == append_star(<<"The file is valid, starting calculations...">>, cover[2])
        vert_force == p.vert * Kilo
        f_bd == MulDiv(225, f_ctd, 100)
        anchorage == foot_anchorage(col_bar_diam, f_yd, f_bd)
        required_anchorage == anchorage.required_anchorage
        min_anchorage == anchorage.min_anchorage
        assumed_anchorage == anchorage.assumed_anchorage
        nu_rd_max == MulDiv(MulDiv(2400, One - MulDiv(f_ck, One, 250000), One), f_cd, One)
        u0 == 2 * (c_height + c_width)
        h_min == MulDiv(MulDiv(11500, vert_force, One), StressDen, nu_rd_max) \div u0
        h_cover == assumed_anchorage + (3 * bar_diam) \div 2
        height_correct == ~(height < h_min \/ height < h_cover)
        area == width * length
        sigma == MulDiv(vert_force, StressDen * Kilo, area)
        eff_length == (width - c_width) \div 2 + MulDiv(1500, c_width, One)
        bend_moment == MulDiv(MulDiv(eff_length * eff_length, length, Metre), sigma,
                              2 * Metre * Metre)
        eff_height == height - nom_cover - (3 * bar_diam) \div 2
        z == MulDiv(9000, eff_height, One)
        min_area == Area(MulDiv(length * eff_height, props[1].area_coefficient, CoeffDen))
        max_area == Area(MulDiv(length * height, 400, One))
        total_required_area ==
            Max2(Area(MulDiv(MulDivSigned(bend_moment, Metre, z), StressDen, f_yd)), min_area)
        required_area == MulDiv(total_required_area, Metre, length)
        search == PlateCall(required_area, MulDiv(min_area, Metre, length),
                            MulDiv(max_area, Metre, length), bar_diam, nom_cover)
        provided_area == MulDiv(search.ret[1], length, Metre)
        punching == Foot_punching(vert_force, sigma, u0, eff_height, nu_rd_max, c_width,
                                  c_height, provided_area, length, f_ck)
        base == [h_min |-> h_min, h_cover |-> h_cover, height |-> height,
                 height_correct |-> height_correct,
                 required_anchorage |-> required_anchorage,
                 min_anchorage |-> min_anchorage, assumed_anchorage |-> assumed_anchorage]
        flexural == [h_min |-> h_min, h_cover |-> h_cover, height |-> height,
                     height_correct |-> height_correct,
                     required_anchorage |-> required_anchorage,
                     min_anchorage |-> min_anchorage,
                     assumed_anchorage |-> assumed_anchorage,
                     min_area |-> min_area, max_area |-> max_area,
                     eff_height |-> eff_height, length |-> length,
                     total_required_area |-> total_required_area,
                     a_dependant |-> punching.a_dependant]
    IN  IF rem1.raised # "" THEN Raised(rem1.raised, rem1.remarks, <<>>, <<>>)
        ELSE IF ~height_correct
        \* total_required_area is read at the end and was never assigned
        THEN Raised("UnboundLocalError",
                    rem1.remarks \o <<"Incorrect height of the element.",
                                      "Calculations finished.">>, base, <<>>)
        ELSE IF z = 0
        \* bend_moment / (z * f_yd)
        THEN Raised("ZeroDivisionError",
                    rem1.remarks \o <<"Height of the element correct.">>, base, <<>>)
        ELSE IF search.ret[1] = None
        \* provided_area_per_rm * length with provided_area_per_rm None
        THEN Raised("TypeError", rem1.remarks \o <<"Height of the element correct.">>,
                    flexural, <<search>>)
        ELSE IF punching.raised # ""
        THEN Raised(punching.raised,
                    rem1.remarks \o <<"Height of the element correct.">> \o punching.remarks,
                    flexural, <<search>>)
        ELSE Returned(<<provided_area>>, <<search.ret[2]>>, <<total_required_area>>,
                      rem1.remarks \o <<"Height of the element correct.">>
                        \o punching.remarks \o <<"Calculations finished.">>,
                      flexural, <<search>>)

\* ------------------------------------------------------------------------
\* Inputs
\* ------------------------------------------------------------------------
\* material and exposure selections of a schema-valid file
ConcreteChoices == {"C20/25", "C30/37"}
SteelChoices == {"RB500", "20G2VY"}
ExposureChoices == {"XC1", "XC3", "XF1"}

Materials ==
    [concr_class : ConcreteChoices, steel_grade : SteelChoices, exp : ExposureChoices]

\* bending moments [kNm] and vertical forces [kN] are multiples of a step
MomentStep == 60
MomentSteps == 4
ForceStep == 700
ForceSteps == 3

Moments == {MomentStep * k * k : k \in 0..MomentSteps}
Forces == {ForceStep * k * k : k \in 1..ForceSteps}

PlateInputs ==
    {[concr_class |-> m.concr_class, steel_grade |-> m.steel_grade, exp |-> m.exp,
      bar_diam |-> d, concr_cover |-> 3, height |-> h, moment |-> mo] :
        m \in Materials, d \in {12, 20}, h \in {15, 25}, mo \in Moments}

BeamInputs ==
    {[concr_class |-> m.concr_class, steel_grade |-> m.steel_grade, exp |-> m.exp,
      bar_diam |-> 16, concr_cover |-> 3, height |-> h, width |-> w, moment |-> mo,
      sup_section |-> fl = 0, fl_height |-> 10, fl_width |-> fl] :
        m \in Materials, h \in {40, 60}, w \in {20, 30}, mo \in Moments,
        fl \in {0, 40, 120}}

ColumnInputs ==
    {[concr_class |-> m.concr_class, steel_grade |-> m.steel_grade, exp |-> m.exp,
      bar_diam |-> d, concr_cover |-> 3, height |-> h, width |-> w, moment |-> mo,
      vertical |-> v] :
        m \in Materials, d \in {12, 25}, h \in {30, 60}, w \in {30, 60},
        mo \in Moments \cup {574}, v \in Forces}

FootInputs ==
    {[concr_class |-> m.concr_class, steel_grade |-> m.steel_grade, exp |-> m.exp,
      bar_diam |-> d, col_bar_diam |-> 16, concr_cover |-> 5, fheight |-> h,
      fwidth |-> w, flength |-> w, cheight |-> c, cwidth |-> c, vert |-> v] :
        m \in Materials, d \in {10, 20}, h \in {40, 80}, w \in {150, 250},
        c \in {10, 30}, v \in Forces}
    \cup
    \* a declared cover above the height of the footing
    {[concr_class |-> m.concr_class, steel_grade |-> m.steel_grade, exp |-> m.exp,
      bar_diam |-> 10, col_bar_diam |-> 6, concr_cover |-> 27, fheight |-> 25,
      fwidth |-> 150, flength |-> 150, cheight |-> 30, cwidth |-> 30, vert |-> v] :
        m \in Materials, v \in Forces}
    \cup
    \* a footing just above its minimum height with a deep cover
    {[concr_class |-> m.concr_class, steel_grade |-> m.steel_grade, exp |-> m.exp,
      bar_diam |-> 20, col_bar_diam |-> 16, concr_cover |-> 8, fheight |-> 60,
      fwidth |-> w, flength |-> w, cheight |-> 30, cwidth |-> 30, vert |-> v] :
        m \in Materials, w \in {150, 250}, v \in Forces}

\* arguments of a direct call of a search: areas are multiples of a step
AreaStep == 30000
AreaSteps == 5
Areas == {AreaStep * k : k \in 0..AreaSteps}
PlateAreas == {4 * a : a \in Areas}

VARIABLES pc, elem, result, calls, seen
vars == <<pc, elem, result, calls, seen>>

\* ------------------------------------------------------------------------
\* The state machine: an element is built from a file and its
\* calc_reinforcement is called; or a search is called on its own
\* ------------------------------------------------------------------------
Init ==
    /\ pc = "idle"
    /\ elem = [kind |-> "none", valid |-> FALSE, p |-> <<>>]
    /\ result = <<>>
    /\ calls = <<>>
    /\ seen = <<>>

\* Element.__init__: the parameters and the verdict of validate_data
Construct(kind, valid, p) ==
    /\ pc = "idle"
    /\ elem' = [kind |-> kind, valid |-> valid, p |-> p]
    /\ pc' = "constructed"
    /\ UNCHANGED <<result, calls, seen>>

ConstructPlate == \E valid \in BOOLEAN, p \in PlateInputs : Construct("plate", valid, p)
ConstructBeam == \E valid \in BOOLEAN, p \in BeamInputs : Construct("beam", valid, p)
ConstructColumn == \E valid \in BOOLEAN, p \in ColumnInputs : Construct("column", valid, p)
ConstructFoot == \E valid \in BOOLEAN, p \in FootInputs : Construct("foot", valid, p)

\* a mutant: the call leaves a larger declared cover behind in the element
Finish_cover_kept(r) ==
    /\ result' = [f \in DOMAIN r \ {"calls"} |-> r[f]]
    /\ calls' = r.calls
    /\ pc' = IF r.raised = "" THEN "returned" ELSE "raised"
    /\ elem' = [elem EXCEPT !.p.concr_cover = @ + 1]

\* calc_reinforcement returns r or leaves by the exception r.raised
Finish(r) ==
    /\ result' = [f \in DOMAIN r \ {"calls"} |-> r[f]]
    /\ calls' = r.calls
    /\ pc' = IF r.raised = "" THEN "returned" ELSE "raised"
    /\ UNCHANGED elem

PlateCalc ==
    /\ pc = "constructed" /\ elem.kind = "plate"
    /\ \E r \in {Plate_calc_reinforcement(elem.valid, elem.p)} : Finish(r)
    /\ UNCHANGED seen

BeamCalc ==
    /\ pc = "constructed" /\ elem.kind = "beam"
    /\ \E r \in {Beam_calc_reinforcement(elem.valid, elem.p)} : Finish(r)
    /\ UNCHANGED seen

ColumnCalc ==
    /\ pc = "constructed" /\ elem.kind = "column"
    /\ \E r \in {Column_calc_reinforcement(elem.valid, elem.p)} : Finish(r)
    /\ UNCHANGED seen

FootCalc ==
    /\ pc = "constructed" /\ elem.kind = "foot"
    /\ \E r \in {Foot_calc_reinforcement(elem.valid, elem.p)} : Finish(r)
    /\ UNCHANGED seen

\* a call of get_beam_reinforcement with arguments of its own
BeamSearch ==
    /\ pc = "idle"
    /\ \E required_area \in Areas, min_area \in Areas, max_area \in Areas,
          bar_diam \in {120, 200}, width \in {1000, 2000, 3000}, cover \in {300, 450} :
            calls' = <<BeamCall(required_area, min_area, max_area, bar_diam,
                                stirrup_diam, width, cover)>>
    /\ pc' = "searched"
    /\ UNCHANGED <<elem, result, seen>>

\* a call of get_plate_reinforcement with arguments of its own
PlateSearch ==
    /\ pc = "idle"
    /\ \E required_area \in PlateAreas, min_area \in PlateAreas, max_area \in PlateAreas,
          bar_diam \in {120, 200}, cover \in {300, 1100} :
            calls' = <<PlateCall(required_area, min_area, max_area, bar_diam, cover)>>
    /\ pc' = "searched"
    /\ UNCHANGED <<elem, result, seen>>

Next ==
    \/ ConstructPlate \/ ConstructBeam \/ ConstructColumn \/ ConstructFoot
    \/ PlateCalc \/ BeamCalc \/ ColumnCalc \/ FootCalc
    \/ BeamSearch \/ PlateSearch

Spec == Init /\ [][Next]_vars

\* ------------------------------------------------------------------------
\* Repeated calls: calc_reinforcement is called again on the element it
\* was called on, with calls of a search in between; a search is called
\* again with the arguments of its last call. seen is the record of what
\* each call handed back.
\* ------------------------------------------------------------------------
MaxSeen == 3

\* the class the dispatcher picks, and its calc_reinforcement
dispatcher(e) ==
    CASE e.kind = "plate" -> Plate_calc_reinforcement(e.valid, e.p)
      [] e.kind = "beam" -> Beam_calc_reinforcement(e.valid, e.p)
      [] e.kind = "column" -> Column_calc_reinforcement(e.valid, e.p)
      [] e.kind = "foot" -> Foot_calc_reinforcement(e.valid, e.p)

\* the files of the repeated calls
RepeatInputs ==
    [plate |-> {p \in PlateInputs : p.exp = "XC1" /\ p.steel_grade = "RB500"},
     beam |-> {p \in BeamInputs : p.exp = "XC1" /\ p.steel_grade = "RB500"},
     column |-> {p \in ColumnInputs : p.exp = "XC1" /\ p.steel_grade = "RB500"
                                        /\ p.bar_diam = 12},
     foot |-> {p \in FootInputs : p.exp = "XC1" /\ p.steel_grade = "RB500"}]

ConstructAny ==
    \E kind \in DOMAIN RepeatInputs, valid \in BOOLEAN :
        \E p \in RepeatInputs[kind] : Construct(kind, valid, p)

\* calc_reinforcement of the element, for the first time or again
Calc ==
    /\ pc \in {"constructed", "returned", "raised", "between"}
    /\ Len(seen) < MaxSeen
    /\ \E r \in {dispatcher(elem)} :
        /\ Finish(r)
        /\ seen' = Append(seen, [of |-> "calc",
                                 out |-> <<r.raised, r.provided_area,
                                           r.provided_reinforcement, r.required_area,
                                           r.remarks>>])

\* another call made between two calls of calc_reinforcement: a search
Between ==
    /\ pc \in {"returned", "raised"}
    /\ Len(seen) < MaxSeen
    /\ \E required_area \in {AreaStep, 3 * AreaStep} :
        \E c \in {BeamCall(required_area, 0, AreaStep * AreaSteps, 120, stirrup_diam,
                            3000, 300)} :
            /\ calls' = <<c>>
            /\ seen' = Append(seen, [of |-> "search", out |-> c.ret])
    /\ pc' = "between"
    /\ UNCHANGED <<elem, result>>

\* get_beam_reinforcement called again with the arguments of the last call
SearchAgain ==
    /\ pc = "searched" /\ calls[1].fn = "get_beam_reinforcement"
    /\ Len(seen) < MaxSeen
    /\ \E c \in {BeamCall(calls[1].required_area, calls[1].min_area, calls[1].max_area,
                           calls[1].bar_diam, calls[1].stirrup_diam, calls[1].width,
                           calls[1].cover)} :
        /\ seen' = Append(seen, [of |-> "again", out |-> <<calls[1].ret, c.ret>>])
        /\ calls' = <<c>>
    /\ UNCHANGED <<pc, elem, result>>

NextRepeat == ConstructAny \/ Calc \/ Between \/ BeamSearch \/ SearchAgain

SpecRepeat == Init /\ [][NextRepeat]_vars

\* ------------------------------------------------------------------------
\* Properties
\* ------------------------------------------------------------------------
TypeOK ==
    /\ pc \in {"idle", "constructed", "returned", "raised", "searched"}
    /\ \A i \in 1..Len(calls) :
        /\ calls[i].max_area >= 0
        /\ calls[i].ret[1] = None \/ calls[i].ret[1] > 0

Done == pc \in {"returned", "raised"}
Remarked(text) == \E i \in 1..Len(result.remarks) : result.remarks[i] = text
Computed(name) == name \in DOMAIN result.parameters

CallsOf(fn) == {calls[i] : i \in {j \in 1..Len(calls) : calls[j].fn = fn}}
BeamCalls == CallsOf("get_beam_reinforcement")
PlateCalls == CallsOf("get_plate_reinforcement")

\* n * pi * (bar_diam / 2)^2, as the claims state it
CountArea(n, bar_diam) == Area(MulDiv(n * (bar_diam \div 2) * (bar_diam \div 2), PiR, One))

\* bar area / spacing, as the claims state it
SpacingArea(spacing, bar_diam) ==
    MulDiv(Area(MulDiv((bar_diam \div 2) * (bar_diam \div 2), PiR, One)), Metre, spacing)

\* the area a meets the required area of the call c within its bounds
Meets(a, c) == a >= c.required_area /\ c.min_area <= a /\ a <= c.max_area

\* the bar counts a call of get_beam_reinforcement scans
Scanned(c) == 2..max_bars(c.bar_diam, c.stirrup_diam, c.width, c.cover)

\* the positions of axial_spacings a call of get_plate_reinforcement admits
Admitted(c) ==
    {i \in 1..Len(axial_spacings) : axial_spacings[i] > c.bar_diam + c.cover}

\* C1 as stated: every valid beam with mu <= 0.374 is returned a provided
\* area >= the required area, within [min_area, max_area], that of the
\* smallest admissible bar count.
C1_Original ==
    (/\ Done /\ elem.kind = "beam" /\ elem.valid
     /\ Computed("mu") /\ result.parameters.mu <= 3740)
    => /\ pc = "returned"
       /\ result.provided_area[1] # None
       /\ result.provided_area[1] >= result.required_area[1]
       /\ result.parameters.min_area <= result.provided_area[1]
       /\ result.provided_area[1] <= result.parameters.max_area
       /\ result.provided_reinforcement[1] >= 2
       /\ result.provided_area[1]
            = CountArea(result.provided_reinforcement[1], MulDiv(elem.p.bar_diam, Metre, Kilo))
       /\ \A m \in 2..(result.provided_reinforcement[1] - 1) :
            LET a == CountArea(m, MulDiv(elem.p.bar_diam, Metre, Kilo))
            IN  ~(/\ a >= result.required_area[1]
                  /\ result.parameters.min_area <= a
                  /\ a <= result.parameters.max_area)

\* C1 as amended: whenever a valid beam with mu <= 0.374 is returned a
\* provided area that is not null, that area is >= the required area, lies
\* in [min_area, max_area] and is the area of the smallest bar count of the
\* scanned range that meets these conditions.
C1_Amended ==
    (/\ pc = "returned" /\ elem.kind = "beam" /\ elem.valid
     /\ result.parameters.mu <= 3740 /\ result.provided_area[1] # None)
    => LET n == result.provided_reinforcement[1]
           d == MulDiv(elem.p.bar_diam, Metre, Kilo)
           fits(a) == /\ a >= result.required_area[1]
                      /\ result.parameters.min_area <= a
                      /\ a <= result.parameters.max_area
       IN  /\ result.required_area[1] # None
           /\ result.provided_area[1] >= result.required_area[1]
           /\ result.parameters.min_area <= result.provided_area[1]
           /\ result.provided_area[1] <= result.parameters.max_area
           /\ n >= 2
           /\ result.provided_area[1] = CountArea(n, d)
           /\ \A m \in 2..(n - 1) : ~fits(CountArea(m, d))

\* a valid beam with mu <= 0.374 was given more than the two bars the scan
\* starts with
C1_Witness ==
    /\ pc = "returned" /\ elem.kind = "beam" /\ elem.valid
    /\ result.parameters.mu <= 3740
    /\ result.provided_area[1] # None /\ result.provided_reinforcement[1] >= 3

\* C2: get_beam_reinforcement returns (n * pi * (bar_diam/2)^2, n) for the
\* first n of the ascending scan from 2 to the maximum count whose area is >=
\* required_area and within [min_area, max_area]: no smaller scanned count
\* has such an area.
C2_FirstCount ==
    \A c \in BeamCalls :
        c.ret[2] # None =>
            /\ c.ret[2] \in Scanned(c)
            /\ c.ret[1] = CountArea(c.ret[2], c.bar_diam)
            /\ Meets(c.ret[1], c)
            /\ \A m \in Scanned(c) : m < c.ret[2] => ~Meets(CountArea(m, c.bar_diam), c)

\* a search returned a count that smaller scanned counts come before
C2_Witness == \E c \in BeamCalls : c.ret[2] # None /\ c.ret[2] >= 4

\* C3: both searches return (None, None) when required_area > max_area or
\* when nothing in the searched range meets required_area within
\* [min_area, max_area]; a layout they return is never below required_area
\* nor outside [min_area, max_area].
C3_Infeasible ==
    /\ \A c \in BeamCalls :
        /\ (c.required_area > c.max_area \/ \A n \in Scanned(c) : ~Meets(CountArea(n, c.bar_diam), c))
            => c.ret = <<None, None>>
        /\ c.ret[1] = None \/ Meets(c.ret[1], c)
        /\ c.ret[1] = None <=> c.ret[2] = None
    /\ \A c \in PlateCalls :
        /\ (c.required_area > c.max_area
              \/ \A i \in Admitted(c) : ~Meets(SpacingArea(axial_spacings[i], c.bar_diam), c))
            => c.ret = <<None, None>>
        /\ c.ret[1] = None \/ Meets(c.ret[1], c)
        /\ c.ret[1] = None <=> c.ret[2] = None

\* a search was asked for more than max_area although the area of some
\* scanned layout reaches required_area, and returned the null pair
C3_Witness ==
    \/ \E c \in BeamCalls :
        /\ c.required_area > c.max_area /\ c.ret = <<None, None>>
        /\ \E n \in Scanned(c) : CountArea(n, c.bar_diam) >= c.required_area
    \/ \E c \in PlateCalls :
        /\ c.required_area > c.max_area /\ c.ret = <<None, None>>
        /\ \E i \in Admitted(c) : SpacingArea(axial_spacings[i], c.bar_diam) >= c.required_area

\* C4: get_plate_reinforcement returns (bar_area / s, s) for the first
\* spacing s of the standard list with s > bar_diam + cover whose area meets
\* required_area within [min_area, max_area]: s is in the list, exceeds
\* bar_diam + cover, and no earlier admissible spacing has such an area.
C4_FirstSpacing ==
    \A c \in PlateCalls :
        c.ret[2] # None =>
            \E i \in Admitted(c) :
                /\ c.ret[2] = axial_spacings[i]
                /\ c.ret[2] > c.bar_diam + c.cover
                /\ c.ret[1] = SpacingArea(c.ret[2], c.bar_diam)
                /\ Meets(c.ret[1], c)
                /\ \A j \in Admitted(c) :
                    j < i => ~Meets(SpacingArea(axial_spacings[j], c.bar_diam), c)

\* a search passed over wider spacings and returned one further down the
\* list, the narrowest spacings of which it does not admit for its bars
C4_Witness ==
    \E c \in PlateCalls :
        /\ c.ret[2] # None /\ c.ret[2] < axial_spacings[1]
        /\ Admitted(c) # 1..Len(axial_spacings)

\* C5: after the adjustment of Column.calc_reinforcement the reported
\* required_area_1 + required_area_2 is >= min_area, with
\* min_area = max(0.1 * vert_force / f_yd, 0.002 * width * height).
C5_ColumnMinimum ==
    (pc = "returned" /\ elem.kind = "column" /\ elem.valid)
    => LET f_yd == RebarGrade[IF elem.p.steel_grade = "20G2VY" THEN "A_20G2VY"
                              ELSE elem.p.steel_grade].fyd * Kilo
           tenth == MulDiv(MulDiv(1000, elem.p.vertical * Kilo, One), StressDen, f_yd)
           gross == MulDiv(MulDiv(elem.p.width, Metre, 100) * MulDiv(elem.p.height, Metre, 100),
                           20, One)
       IN  /\ result.parameters.min_area = Area(IF tenth >= gross THEN tenth ELSE gross)
           /\ result.required_area[1] + result.required_area[2] >= result.parameters.min_area

\* the alpha values of a valid column gave less than min_area on the two
\* faces together, and the adjustment raised the reported areas
C5_Witness ==
    /\ pc = "returned" /\ elem.kind = "column" /\ elem.valid
    /\ result.parameters.computed_1 + result.parameters.computed_2 < result.parameters.min_area
    /\ result.required_area[1] > result.parameters.computed_1

\* C6 as stated: a valid footing with height < h_min or height < h_cover is
\* returned a result with null provided_area and required_area and the
\* remark "Incorrect height of the element.", without flexural computation.
C6_FootAbort ==
    (/\ Done /\ elem.kind = "foot" /\ elem.valid
     /\ Computed("height_correct") /\ ~result.parameters.height_correct)
    => /\ pc = "returned"
       /\ result.provided_area = <<None>> /\ result.required_area = <<None>>
       /\ Remarked("Incorrect height of the element.")
       /\ calls = <<>>

\* C7 as stated: for each of the four kinds, calc_reinforcement of an input
\* that failed validation does not raise and returns null provided_area,
\* provided_reinforcement and required_area with "The file is not valid.".
C7_InvalidInput ==
    (Done /\ ~elem.valid)
    => /\ pc = "returned"
       /\ Remarked("The file is not valid.")
       /\ \A i \in 1..Len(result.provided_area) :
            /\ result.provided_area[i] = None
            /\ result.provided_reinforcement[i] = None
            /\ result.required_area[i] = None

\* C8 as stated: whenever a search returns the null pair inside
\* calc_reinforcement, the call does not raise and returns a result whose
\* provided_area and provided_reinforcement entries are null.
C8_NullPairReturned ==
    Done =>
        \A i \in 1..Len(calls) :
            calls[i].ret = <<None, None>>
            => /\ pc = "returned"
               /\ result.provided_area[i] = None
               /\ result.provided_reinforcement[i] = None

\* C9: in Beam and Plate calc_reinforcement, when mu > 0.374 the remark
\* "Mu value too high!" is emitted, no search is invoked, required_area,
\* provided_area and the layout stay null, and the call returns a result
\* whose remarks end with "Calculations finished.".
C9_MuTooHigh ==
    (/\ Done /\ elem.kind \in {"beam", "plate"} /\ elem.valid
     /\ Computed("mu") /\ result.parameters.mu > 3740)
    => /\ pc = "returned"
       /\ Remarked("Mu value too high!")
       /\ calls = <<>>
       /\ result.required_area = <<None>>
       /\ result.provided_area = <<None>>
       /\ result.provided_reinforcement = <<None>>
       /\ result.remarks[Len(result.remarks)] = "Calculations finished."

\* a span section of a valid beam had mu above the limit
C9_Witness ==
    /\ pc = "returned" /\ elem.kind = "beam" /\ elem.valid /\ ~elem.p.sup_section
    /\ result.parameters.mu > 3740 /\ result.parameters.mu <= 4500

\* C10 as stated: a valid footing whose flexural design succeeded is
\* returned the flexural result whatever the punching checks find: they only
\* add remarks and never raise, for every ratio of plan area to column area.
C10_PunchingAdvisory ==
    (/\ Done /\ elem.kind = "foot" /\ elem.valid
     /\ \E c \in PlateCalls : c.ret[1] # None)
    => /\ pc = "returned"
       /\ result.provided_area[1] # None
       /\ result.provided_reinforcement[1] = calls[1].ret[2]
       /\ result.required_area[1] = result.parameters.total_required_area

\* the element code of each kind, as get_nominal_cover reads it
ElementCode == [plate |-> "p", beam |-> "b", column |-> "c", foot |-> "f"]

\* the remarks calc_reinforcement emits whatever the search returns: those
\* of the validation, of the cover, of the checks before the search and the
\* closing one
RoutineRemarks ==
    {"The file is valid, starting calculations...", "Mu value correct.",
     "Section is an apparent T section.", "Section is a real T section.",
     "Modifying bending moment value.", "No need to modify bending moment value.",
     "Alpha values calculated.", "Height of the element correct.",
     "Calculations finished."}
    \cup {get_nominal_cover(ElementCode[elem.kind], elem.p)[2][i] :
            i \in 1..Len(get_nominal_cover(ElementCode[elem.kind], elem.p)[2])}

\* C11 as stated: whenever a required area was computed and the search
\* returned the null pair, calc_reinforcement returns a result with null
\* provided_area and layout whose remarks contain a remark recording the
\* infeasibility, that is a remark other than the routine ones.
C11_InfeasibilityRemark ==
    (Done /\ elem.valid)
    => \A i \in 1..Len(calls) :
        calls[i].ret = <<None, None>>
        => /\ pc = "returned"
           /\ result.provided_area[i] = None
           /\ result.provided_reinforcement[i] = None
           /\ \E j \in 1..Len(result.remarks) : result.remarks[j] \notin RoutineRemarks

\* C12: in every result Plate, Beam and Foot calc_reinforcement return with
\* a required area that is not null, the required area is >= min_area (for
\* Foot the total required area is >= area_coefficient * length *
\* eff_height), and a provided area that is not null lies in
\* [min_area, max_area].
C12_AreaInvariant ==
    (/\ pc = "returned" /\ elem.kind \in {"plate", "beam", "foot"} /\ elem.valid
     /\ result.required_area[1] # None)
    => /\ result.required_area[1] >= result.parameters.min_area
       /\ elem.kind = "foot"
            => result.parameters.min_area
                = Area(MulDiv(result.parameters.length * result.parameters.eff_height,
                              ConcreteClass[ClassKey[elem.p.concr_class]].area_coefficient,
                              CoeffDen))
       /\ result.provided_area[1] # None
            => /\ result.parameters.min_area <= result.provided_area[1]
               /\ result.provided_area[1] <= result.parameters.max_area

\* a footing was returned a provided area, its total required area being
\* the minimum one
C12_Witness ==
    /\ pc = "returned" /\ elem.kind = "foot" /\ elem.valid
    /\ result.required_area[1] = result.parameters.min_area
    /\ result.provided_area[1] # None

C13_WitnessSearch ==
    /\ Len(seen) >= 1 /\ seen[Len(seen)].of = "again"
    /\ calls[1].ret[2] # None

\* the computed requirement of the two faces of a returned valid column is
\* short of min_area
ColumnShort ==
    /\ pc = "returned" /\ elem.kind = "column" /\ elem.valid
    /\ result.parameters.computed_1 + result.parameters.computed_2
        < result.parameters.min_area

ColumnFloor ==
    LET height == MulDiv(elem.p.height, Metre, 100)
    IN  MulDiv(elem.p.vertical * Kilo,
               IF height \div 30 >= 200 THEN height \div 30 ELSE 200, Metre)

\* m_ed_1 of the column in elem for the bending moment m
ColumnShifted(m) ==
    LET height == MulDiv(elem.p.height, Metre, 100)
        width == MulDiv(elem.p.width, Metre, 100)
        f_cd == MulDiv(ConcreteClass[ClassKey[elem.p.concr_class]].fck * Kilo, 10, 14)
        a == MulDiv(elem.p.concr_cover, Metre, 100)
                + MulDiv(elem.p.bar_diam, Metre, Kilo) \div 2 + 80
        eff_height == height - a
        delta == MulDiv(a, One, eff_height)
        s == MulDiv(width * eff_height, f_cd, StressDen)
        n_ed == MulDiv(elem.p.vertical * Kilo, One, s)
    IN  MulDiv(MulDiv(m, Metre, eff_height), One, s)
            + MulDiv(MulDiv(5000, n_ed, One), One - delta, One)

\* C15: the bending moment of the later formulas of Column.calc_reinforcement
\* is max(applied moment, vert_force * max(height / 30, 0.02)), and exactly
\* one of "Modifying bending moment value." (when the applied moment was
\* below that floor) and "No need to modify bending moment value." is
\* emitted.
C15_MomentFloor ==
    (pc = "returned" /\ elem.kind = "column" /\ elem.valid)
    => LET applied == elem.p.moment * Kilo
           used == IF applied >= ColumnFloor THEN applied ELSE ColumnFloor
       IN  /\ result.parameters.bend_moment = used
           /\ result.parameters.m_ed_1 = ColumnShifted(used)
           /\ Remarked("Modifying bending moment value.") <=> applied < ColumnFloor
           /\ Remarked("No need to modify bending moment value.")
                <=> ~(applied < ColumnFloor)
           /\ Cardinality({i \in 1..Len(result.remarks) :
                            result.remarks[i] \in {"Modifying bending moment value.",
                                                   "No need to modify bending moment value."}})
                = 1

\* a column with an applied moment that is not zero and below the floor was
\* designed for the floor
C15_Witness ==
    /\ pc = "returned" /\ elem.kind = "column" /\ elem.valid
    /\ elem.p.moment > 0 /\ elem.p.moment * Kilo < ColumnFloor
    /\ result.parameters.bend_moment = ColumnFloor
    /\ Remarked("Modifying bending moment value.")

\* C16: no calc_reinforcement takes the square root of a negative number:
\* no call ends in the math domain error of such a root.
C16_NoNegativeRoot ==
    ~(pc = "raised" /\ result.raised = "ValueError")

\* the beam in elem was designed as a real T section
RealT == pc = "returned" /\ elem.kind = "beam" /\ elem.valid
            /\ result.parameters.section = "real"

\* C17: in a real T section required_area = max(A1 + A2, min_area), A1 the
\* area for the moment of the flange overhangs and A2 the web area of the
\* residual moment, computed from its ratio mu_2; with mu_2 > 0.374 the
\* remark "Mu value after recalculation too high!" is emitted and no bar
\* selection is made.
C17_RealT ==
    RealT =>
        LET par == result.parameters
            A2 == alpha_area(eta_root(par.mu_2), par.width, par.eff_height, par.f_cd,
                             par.f_yd)
        IN  IF par.mu_2 > mu_lim
            THEN /\ Remarked("Mu value after recalculation too high!")
                 /\ calls = <<>>
                 /\ result.provided_area = <<None>>
            ELSE /\ ~Remarked("Mu value after recalculation too high!")
                 /\ result.required_area
                        = <<Max2(par.required_area_1 + A2, par.min_area)>>

\* a valid column was designed
ColumnDone == pc = "returned" /\ elem.kind = "column" /\ elem.valid

\* alpha_2 as first computed: (m_ed_1 - 0.371) / (1 - delta)
ColumnAlpha2 ==
    MulDiv(result.parameters.m_ed_1 - 3710, One, One - result.parameters.delta)

\* the threshold 0.371 / (1 - delta) + alpha_min
ColumnThreshold ==
    MulDiv(3710, One, One - result.parameters.delta) + result.parameters.alpha_1_min

\* C18 as stated: the direct branch of Column.calc_reinforcement is taken
\* exactly when m_ed_1 exceeds 0.371 / (1 - delta) + alpha_min.
C18_Original ==
    ColumnDone => (result.parameters.alpha_2_ge
                    <=> result.parameters.m_ed_1 > ColumnThreshold)

\* C18 amended: the direct branch is taken exactly when
\* alpha_2 = (m_ed_1 - 0.371) / (1 - delta) is at least alpha_2_min, and
\* then alpha_1 = max(0.5 - n_ed + alpha_2, alpha_1_min); otherwise alpha_2
\* is alpha_2_min and alpha_1 = max(0.973 - n_ed - sqrt(0.947 - 1.95 *
\* m_ed_1), alpha_1_min), or alpha_1_min where that root has a negative
\* argument.
C18_Amended ==
    ColumnDone =>
        LET par == result.parameters
            root == 9470 - MulDiv(19500, par.m_ed_1, One)
        IN  /\ par.alpha_2_ge <=> ColumnAlpha2 >= par.alpha_1_min
            /\ par.alpha_2_ge =>
                /\ par.alpha_2 = ColumnAlpha2
                /\ par.alpha_1 = IF 5000 - par.n_ed + ColumnAlpha2 >= par.alpha_1_min
                                 THEN 5000 - par.n_ed + ColumnAlpha2
                                 ELSE par.alpha_1_min
            /\ ~par.alpha_2_ge =>
                /\ par.alpha_2 = par.alpha_1_min
                /\ par.alpha_1 = IF root >= 0
                                    /\ 9730 - par.n_ed - RSqrt(root) >= par.alpha_1_min
                                 THEN 9730 - par.n_ed - RSqrt(root)
                                 ELSE par.alpha_1_min

\* the direct branch was taken with m_ed_1 at or below
\* 0.371 / (1 - delta) + alpha_min
C18_Witness ==
    /\ ColumnDone
    /\ result.parameters.alpha_2_ge
    /\ result.parameters.m_ed_1 <= ColumnThreshold
    /\ result.parameters.alpha_2 = ColumnAlpha2

\* the remarks of the two punching checks
FaceRemarks ==
    {"EC requirement fulfilled, nu_ed value correct.",
     "EC requirement not fulfilled, nu_ed value too high."}
PerimeterRemarks ==
    {"EC requirement fulfilled, nu_ed_red value correct.",
     "EC requirement not fulfilled, nu_ed_red value too high."}

\* C19: Foot.calc_reinforcement emits "Punching verification." if and only
\* if the flexural design produced a provided area and a spacing, and then
\* the remarks after it hold a remark of the check of nu_ed against
\* nu_rd_max and, later, a remark of the check of nu_ed_red against nu_rd
\* (stated of the results that are returned).
C19_PunchingRemarks ==
    (pc = "returned" /\ elem.kind = "foot" /\ elem.valid) =>
        /\ Remarked("Punching verification.")
            <=> (calls # <<>> /\ calls[1].ret[1] # None /\ calls[1].ret[2] # None)
        /\ Remarked("Punching verification.") =>
            \E i, j, k \in 1..Len(result.remarks) :
                /\ i < j /\ j < k
                /\ result.remarks[i] = "Punching verification."
                /\ result.remarks[j] \in FaceRemarks
                /\ result.remarks[k] \in PerimeterRemarks

\* an element was built from a valid file
Built == pc # "idle" /\ elem.kind \in DOMAIN ElementCode /\ elem.valid

\* what get_nominal_cover returns for the element in elem
CoverOfElem == get_nominal_cover(ElementCode[elem.kind], elem.p)

\* the declared cover of the element in elem, as calc_reinforcement reads it
DeclaredCover == MulDiv(elem.p.concr_cover, Metre, 100)

\* C20: get_nominal_cover returns (c_min + 10) mm in metres, c_min = 40 for
\* footings and max(c_min_dur, bar diameter, 10) otherwise, c_min_dur read
\* for structure class 4 less one for sufficient strength and less one for
\* plates; its last remark is "Nominal concrete cover correct." exactly when
\* the declared cover equals the recommendation and the recommendation
\* otherwise; without a table value it returns None and the remark that the
\* cover cannot be calculated.
C20_NominalCover ==
    Built =>
        LET code == ElementCode[elem.kind]
            strong == \/ /\ elem.p.exp \in {"X0", "XC1", "XC2", "XC3", "XD3", "XS2", "XS3"}
                         /\ ClassNumber[elem.p.concr_class] >= 30
                      \/ /\ elem.p.exp \in {"XC4", "XD1", "XD2", "XS1"}
                         /\ ClassNumber[elem.p.concr_class] >= 40
            class == 4 - (IF strong THEN 1 ELSE 0) - (IF code = "p" THEN 1 ELSE 0)
            c_min_dur == ExpClass[elem.p.exp].S[class]
            c_min == IF code = "f" THEN 40
                     ELSE Max3(c_min_dur, elem.p.bar_diam, 10)
            last == CoverOfElem[2][Len(CoverOfElem[2])]
        IN  IF c_min_dur = None
            THEN /\ CoverOfElem[1] = None
                 /\ last = "Not able to calculate nominal cover for exposure class "
                            \o elem.p.exp \o "."
            ELSE /\ CoverOfElem[1] = (c_min + 10) * (Metre \div Kilo)
                 /\ last = "Nominal concrete cover correct."
                        <=> DeclaredCover = CoverOfElem[1]
                 /\ last # "Nominal concrete cover correct."
                        => last = "Recommended nominal concrete cover value is "
                                    \o ToString(c_min + 10) \o " mm."

\* a valid footing got as far as its anchorage lengths
FootAnchored ==
    Done /\ elem.kind = "foot" /\ elem.valid /\ Computed("assumed_anchorage")

\* f_yd / f_bd of the footing in elem as the two terms of a quotient,
\* f_bd = 2.25 * f_ctd
FootBond ==
    LET props == get_material_properties(elem.p)
        f_ctk == props[1].fctk_005 * 100
        f_ctd == (f_ctk * 10) \div 14
    IN  [f_yd |-> props[2].fyd * Kilo,
         f_bd |-> (225 * f_ctd) \div 100]

\* x rounded up to the centimetre
UpToCm(x) == ((x + 99) \div 100) * 100

\* C21 as stated: the assumed anchorage is max(0.6 * required_anchorage,
\* 10 * col_bar_diam, 0.1 m) rounded up, and h_cover is the assumed
\* anchorage + 1.5 * bar_diam.
C21_Original ==
    FootAnchored =>
        LET par == result.parameters
            col_bar_diam == elem.p.col_bar_diam * 10
            least == Max3((6 * par.required_anchorage) \div 10, 10 * col_bar_diam, 1000)
        IN  /\ par.assumed_anchorage = UpToCm(least)
            /\ par.h_cover = par.assumed_anchorage + (3 * elem.p.bar_diam * 10) \div 2

\* C21 amended: required_anchorage = (col_bar_diam / 4) * (f_yd / f_bd) with
\* f_bd = 2.25 * f_ctd; the assumed anchorage is the larger of
\* max(0.6 * required_anchorage, 10 * col_bar_diam, 0.1 m) and
\* required_anchorage rounded up to the centimetre; h_cover is the assumed
\* anchorage + 1.5 * bar_diam.
C21_Amended ==
    FootAnchored =>
        LET par == result.parameters
            col_bar_diam == elem.p.col_bar_diam * 10
            required == (col_bar_diam * FootBond.f_yd) \div (4 * FootBond.f_bd)
            least == Max3((6 * required) \div 10, 10 * col_bar_diam, 1000)
            up == IF (col_bar_diam * FootBond.f_yd) % (4 * FootBond.f_bd * 100) = 0
                  THEN required
                  ELSE (required \div 100 + 1) * 100
        IN  /\ par.required_anchorage = required
            /\ par.min_anchorage = least
            /\ par.assumed_anchorage = (IF up >= least THEN up ELSE least)
            /\ par.h_cover = par.assumed_anchorage + (3 * elem.p.bar_diam * 10) \div 2

\* a footing whose required anchorage, rounded up, is above the minimum
\* anchorage rounded up, and was assumed
C21_Witness ==
    /\ FootAnchored
    /\ result.parameters.assumed_anchorage > UpToCm(result.parameters.min_anchorage)
    /\ result.parameters.assumed_anchorage = UpToCm(result.parameters.required_anchorage)

\* width - 4 * cover - 2 * stirrup_diam - 2 * bar_diam of the call c
LeftOf(c) == c.width - 4 * c.cover - 2 * c.stirrup_diam - 2 * c.bar_diam

\* C22: every bar count n that get_beam_reinforcement returns is >= 2 and
\* fits the section, n * bar_diam + (n - 1) * cover + 2 * cover
\* + 2 * stirrup_diam <= width; when width - 4 * cover - 2 * stirrup_diam
\* - 2 * bar_diam <= 0 no count is scanned and the result is (None, None).
C22_BarsFit ==
    \A c \in BeamCalls :
        /\ c.ret[2] # None =>
            /\ c.ret[2] >= 2
            /\ c.ret[2] * c.bar_diam + (c.ret[2] - 1) * c.cover + 2 * c.cover
                    + 2 * c.stirrup_diam <= c.width
        /\ LeftOf(c) <= 0 => (Scanned(c) = {} /\ c.ret = <<None, None>>)

\* a search returned the largest count it scans, three bars or more
C22_Witness ==
    \E c \in BeamCalls :
        /\ c.ret[2] # None /\ c.ret[2] >= 3
        /\ c.ret[2] = max_bars(c.bar_diam, c.stirrup_diam, c.width, c.cover)

\* C23: in get_beam_reinforcement the leftover width_left - add_bars *
\* (cover + bar_diam), add_bars = ceil(width_left / (cover + bar_diam)), is
\* never >= bar_diam: the branch of one more bar is not taken and the
\* largest scanned count is 1 + ceil(width_left / (cover + bar_diam)).
C23_NoMoreBar ==
    \A c \in BeamCalls :
        LET step == c.cover + c.bar_diam
            up == IF LeftOf(c) % step = 0 THEN LeftOf(c) \div step
                  ELSE LeftOf(c) \div step + 1
        IN  /\ add_bars(c.bar_diam, c.stirrup_diam, c.width, c.cover) = up
            /\ LeftOf(c) - add_bars(c.bar_diam, c.stirrup_diam, c.width, c.cover) * step
                    < c.bar_diam
            /\ ~one_more_bar(c.bar_diam, c.stirrup_diam, c.width, c.cover)
            /\ max_bars(c.bar_diam, c.stirrup_diam, c.width, c.cover) = 1 + up

\* a search with width left over that is not a whole number of steps
C23_Witness ==
    \E c \in BeamCalls :
        /\ LeftOf(c) > 0 /\ LeftOf(c) % (c.cover + c.bar_diam) # 0
        /\ max_bars(c.bar_diam, c.stirrup_diam, c.width, c.cover) >= 3

\* C24: for a valid input of any kind, the one or two remarks of
\* get_nominal_cover are in the remarks of the result, in their order,
\* directly after "The file is valid, starting calculations...", and
\* calc_reinforcement goes on to a returned result.
C24_CoverRemarks ==
    (Done /\ Built) =>
        /\ pc = "returned"
        /\ Len(result.remarks) >= 1 + Len(CoverOfElem[2])
        /\ result.remarks[1] = "The file is valid, starting calculations..."
        /\ \A i \in 1..Len(CoverOfElem[2]) : result.remarks[1 + i] = CoverOfElem[2][i]
====
